---- MODULE Spec2Model ----
(***************************************************************************)
(* A model of two1.bitcoin.block (BlockHeader, BlockBase, Block,           *)
(* CompactBlock) and of the helpers of two1.bitcoin.utils it uses.         *)
(*                                                                         *)
(* Python objects are records whose DOMAIN is the set of instance          *)
(* attributes the object carries; reading an attribute that is neither an  *)
(* instance attribute nor a member of the class raises AttributeError,     *)
(* and writing one adds it (plain objects) or raises (namedtuples).        *)
(* bytes are sequences over 0..255.  Python's unbounded integers that may  *)
(* exceed the model checker's range (targets, hashes read as numbers) are  *)
(* sequences of base-256 digits, most significant first, without leading   *)
(* zeros.  A method is an operator from the object (and its arguments) to  *)
(* an outcome [raised, self, ret]: the exception that escaped ("" for      *)
(* none), the object after the call, and the value returned.               *)
(***************************************************************************)
EXTENDS Integers, Sequences, FiniteSets, TLC

VARIABLES obj, last

vars == <<obj, last>>

(***************************************************************************)
(* Bounds of the model.                                                    *)
(***************************************************************************)
\* The largest number of transactions of a block.
MaxTxns == 4
\* The largest number of hashes of a CompactBlock's merkle edge.
MaxEdge == 2
\* The largest number of bytes that follow a record in a parsed stream.
MaxSuffix == 1

\* The last subsidy era the heights reach.
MaxEra == 3

(***************************************************************************)
(* Python values.                                                          *)
(***************************************************************************)
None == [cls |-> "NoneType"]

IsNone(v) == v.cls = "NoneType"

HasAttr(o, name) == name \in DOMAIN o

\* o.name = v on a plain object: the attribute is added or replaced.
SetAttr(o, name, v) == (name :> v) @@ o

Outcome(r, s, v) == [raised |-> r, self |-> s, ret |-> v]

\* F applied to the value of x, which is computed once.
Let(x, F(_)) == CHOOSE r \in {F(v) : v \in {x}} : TRUE

\* The rest F of a method after a call whose outcome is o: an exception
\* the call raised escapes the method, and F is never run.
Then(o, F(_)) == CHOOSE r \in {IF v.raised # "" THEN v ELSE F(v) : v \in {o}} : TRUE

(***************************************************************************)
(* bytes.                                                                  *)
(***************************************************************************)
Byte == 0..255

\* bytes(n) of Python.
Zeros(n) == [i \in 1..n |-> 0]

\* b[i:j] of Python: never raises, clips to the bytes there are.
Slice(b, i, j) ==
    LET hi == IF j < Len(b) THEN j ELSE Len(b)
    IN IF i >= hi THEN <<>> ELSE SubSeq(b, i + 1, hi)

\* b[i:] of Python.
From(b, i) == Slice(b, i, Len(b))

\* b[::-1] of Python.
Reverse(b) == [i \in 1..Len(b) |-> b[Len(b) + 1 - i]]

RECURSIVE Concat(_)
Concat(ss) == IF ss = <<>> THEN <<>> ELSE Head(ss) \o Concat(Tail(ss))

\* i >> (8 * k) for an i below 2^31.
Shr8(i, k) ==
    IF k = 0 THEN i
    ELSE IF k = 1 THEN i \div 256
    ELSE IF k = 2 THEN i \div 65536
    ELSE IF k = 3 THEN i \div 16777216
    ELSE 0

\* struct.pack('<' + fmt, i) for one unsigned field of n bytes: the n
\* least significant base-256 digits of i, least significant first.
PackLE(i, n) == [k \in 1..n |-> Shr8(i, k - 1) % 256]

Digit(b, k) == IF k <= Len(b) THEN b[k] ELSE 0

\* struct.unpack('<' + fmt, b)[0] for one unsigned field of at most 8
\* bytes.
UnpackLE(b) ==
    Digit(b, 1) + 256 * (Digit(b, 2) + 256 * (Digit(b, 3) + 256 * (Digit(b, 4)
        + 256 * (Digit(b, 5) + 256 * (Digit(b, 6) + 256 * (Digit(b, 7)
        + 256 * Digit(b, 8)))))))

pack_u32(i) == PackLE(i, 4)

\* struct.unpack raises struct.error unless it is given exactly 4 bytes.
unpack_u32(b) ==
    IF Len(Slice(b, 0, 4)) # 4
    THEN Outcome("struct.error", None, None)
    ELSE Outcome("", None, <<UnpackLE(Slice(b, 0, 4)), From(b, 4)>>)

(***************************************************************************)
(* dhash stands for the double SHA-256: a fixed function from bytes to 32  *)
(* bytes that depends on every byte and on their order.  The digest here   *)
(* is a rolling checksum spread over 32 bytes.                             *)
(***************************************************************************)
HashLen == 32

Weight(i) == ((i * i * 31 + i * 7) % 251) + 1

Term(s, i) == IF i <= Len(s) THEN (s[i] + 1) * Weight(i) ELSE 0

Sum8(s, lo) ==
    Term(s, lo) + Term(s, lo + 1) + Term(s, lo + 2) + Term(s, lo + 3)
        + Term(s, lo + 4) + Term(s, lo + 5) + Term(s, lo + 6) + Term(s, lo + 7)

\* The sum of (s[i] + 1) * Weight(i), modulo 65521, over the first 96
\* bytes: what is hashed here is at most a header's 80 bytes.
Roll(s) ==
    (Sum8(s, 1) + Sum8(s, 9) + Sum8(s, 17) + Sum8(s, 25) + Sum8(s, 33) + Sum8(s, 41)
        + Sum8(s, 49) + Sum8(s, 57) + Sum8(s, 65) + Sum8(s, 73) + Sum8(s, 81)
        + Sum8(s, 89)) % 65521

Spread(acc) == [i \in 1..HashLen |-> (acc * i + 7 * i + (acc \div 256)) % 256]

Digest(s, seed) ==
    Let(s, LAMBDA b : Let((Roll(b) * seed + Len(b)) % 65521, Spread))

dhash(s) == Digest(s, 31)

(***************************************************************************)
(* Python integers too large for the model checker: base-256 digits, most  *)
(* significant first, no leading zeros (0 is the empty sequence).          *)
(***************************************************************************)
Strip(d) ==
    LET nz == {i \in 1..Len(d) : d[i] # 0}
    IN IF nz = {} THEN <<>>
       ELSE SubSeq(d, CHOOSE i \in nz : \A j \in nz : i <= j, Len(d))

\* int.from_bytes(b, 'big')
int_from_bytes_big(b) == Strip(b)

\* For digit sequences of one length.
LexLess(a, b) ==
    \E i \in 1..Len(a) : a[i] < b[i] /\ \A j \in 1..(i - 1) : a[j] = b[j]

\* a < b on Python integers.
IntLess(a, b) == Len(a) < Len(b) \/ (Len(a) = Len(b) /\ LexLess(a, b))

(***************************************************************************)
(* utils.py                                                                *)
(***************************************************************************)
\* The integers of the compact-int functions go up to 2^64 - 1: they are
\* base-256 digits, most significant first, without leading zeros, as
\* int_from_bytes_big gives them.  PyInt(i) is that form of an i below 2^31,
\* Small(d) the number of at most three digits.
PyInt(i) == Strip(Reverse(PackLE(i, 4)))

Small(d) == UnpackLE(Reverse(d))

\* a <= b on Python integers.
IntLeq(a, b) == ~IntLess(b, a)

\* struct.pack('<' + fmt, i) for one unsigned field of n bytes that i
\* fits.
PackField(i, n) == Reverse(Zeros(n - Len(i)) \o i)

\* pack_compact_int taking 0xfd itself for a one-byte value.
pack_compact_int_MarkerAsValue(i) ==
    IF IntLeq(i, PyInt(253)) THEN PackField(i, 1)
    ELSE IF IntLeq(i, PyInt(65535)) THEN <<253>> \o PackField(i, 2)
    ELSE IF IntLeq(i, <<255, 255, 255, 255>>) THEN <<254>> \o PackField(i, 4)
    ELSE <<255>> \o PackField(i, 8)

\* For an i below 2^64; above, struct.pack raises.
pack_compact_int(i) ==
    IF IntLess(i, PyInt(253)) THEN PackField(i, 1)
    ELSE IF IntLeq(i, PyInt(65535)) THEN <<253>> \o PackField(i, 2)
    ELSE IF IntLeq(i, <<255, 255, 255, 255>>) THEN <<254>> \o PackField(i, 4)
    ELSE <<255>> \o PackField(i, 8)

\* One branch of unpack_compact_int: an n-byte field after the marker.
\* struct.unpack raises struct.error unless the slice has n bytes.
UnpackField(bytestr, n) ==
    IF Len(Slice(bytestr, 1, 1 + n)) # n
    THEN Outcome("struct.error", None, None)
    ELSE Outcome("", None, <<Strip(Reverse(Slice(bytestr, 1, 1 + n))),
                             From(bytestr, 1 + n)>>)

\* bytestr[0] of empty bytes raises IndexError.  The last else returns
\* None.
unpack_compact_int(bytestr) ==
    IF bytestr = <<>> THEN Outcome("IndexError", None, None)
    ELSE LET b0 == bytestr[1]
         IN IF b0 < 253 THEN Outcome("", None, <<PyInt(b0), From(bytestr, 1)>>)
            ELSE IF b0 = 253 THEN UnpackField(bytestr, 2)
            ELSE IF b0 = 254 THEN UnpackField(bytestr, 4)
            ELSE IF b0 = 255 THEN UnpackField(bytestr, 8)
            ELSE Outcome("", None, None)

\* shift = bits >> 24; (bits & 0xffffff) * (1 << (8 * (shift - 3))).  A
\* negative shift count raises ValueError.
decode_compact_target(bits) ==
    LET shift == bits \div 16777216
        mantissa == bits % 16777216
    IN IF shift < 3
       THEN Outcome("ValueError", None, None)
       ELSE Outcome("", None, Strip(Reverse(PackLE(mantissa, 3)) \o Zeros(shift - 3)))

\* '%x' % target: the number of hexadecimal digits, one for zero.
HexLen(target) ==
    IF target = <<>> THEN 1
    ELSE IF target[1] < 16 THEN 2 * Len(target) - 1
    ELSE 2 * Len(target)

RECURSIVE Gcd(_, _)
Gcd(a, b) == IF b = 0 THEN a ELSE Gcd(b, a % b)

\* x / d on integers, x = hi * 10^8 + lo with lo below 10^8 and d at most
\* 21: Python 3's true division, whose result is a float also where the
\* division is exact.  The float is its whole part, as hi and lo again,
\* and its fraction num / den in lowest terms.
truediv(hi, lo, d) ==
    LET low == (hi % d) * 100000000 + lo
        g == Gcd(low % d, d)
    IN [cls |-> "float", hi |-> hi \div d, lo |-> low \div d,
        num |-> (low % d) \div g, den |-> d \div g]

\* x - k and k * x on a float x below 10^8 and an integer k: a float.
float_sub(x, k) ==
    [cls |-> "float", hi |-> 0, lo |-> x.lo - k, num |-> x.num, den |-> x.den]

float_mul(k, x) ==
    truediv(0, k * (x.lo * x.den + x.num), x.den)

\* int >> float and float << int: unsupported operand types.
rshift(x, n) ==
    IF n.cls = "float" THEN Outcome("TypeError", None, None)
    ELSE Outcome("", None, SubSeq(x, 1, Len(x) - n.lo \div 8))

lshift(x, n) ==
    IF x.cls = "float" THEN Outcome("TypeError", None, None)
    ELSE Outcome("", None, x.digits \o Zeros(n \div 8))

\* shift = (len(hex_target) + 1) / 2 is a float, so is 8 * (shift - 3).
encode_compact_target(target) ==
    Let(HexLen(target), LAMBDA len_hex_target :
    Let(truediv(0, len_hex_target + 1, 2), LAMBDA shift :
    Then(rshift(target, float_mul(8, float_sub(shift, 3))), LAMBDA prefix :
    Then(lshift(shift, 24), LAMBDA high :
        Outcome("", None, high.ret \o prefix.ret)))))

\* era = height // 210000; 50 * 100000000 / (era + 1).
compute_reward(height) ==
    Let(height \div 210000, LAMBDA era :
        Outcome("", None, truediv(50, 0, era + 1)))

(***************************************************************************)
(* BlockHeader                                                             *)
(***************************************************************************)
BlockHeader_init(version, prev_block_hash, merkle_root_hash, time, bits, nonce) ==
    [cls |-> "BlockHeader",
     version |-> version,
     prev_block_hash |-> prev_block_hash,
     merkle_root_hash |-> merkle_root_hash,
     time |-> time,
     bits |-> bits,
     nonce |-> nonce]

\* from_bytes taking the merkle root from the bytes before the previous
\* block's hash.
BlockHeader_from_bytes_RootFirst(b) ==
    Then(unpack_u32(b), LAMBDA version :
    Let(Slice(version.ret[2], 0, 32), LAMBDA merkle_root_hash :
    Let(Slice(version.ret[2], 32, 64), LAMBDA prev_block_hash :
    Then(unpack_u32(From(version.ret[2], 64)), LAMBDA time :
    Then(unpack_u32(time.ret[2]), LAMBDA bits :
    Then(unpack_u32(bits.ret[2]), LAMBDA nonce :
        Outcome("", None,
                <<BlockHeader_init(version.ret[1], prev_block_hash, merkle_root_hash,
                                   time.ret[1], bits.ret[1], nonce.ret[1]),
                  nonce.ret[2]>>)))))))

BlockHeader_from_bytes(b) ==
    Then(unpack_u32(b), LAMBDA version :
    Let(Slice(version.ret[2], 0, 32), LAMBDA prev_block_hash :
    Let(Slice(version.ret[2], 32, 64), LAMBDA merkle_root_hash :
    Then(unpack_u32(From(version.ret[2], 64)), LAMBDA time :
    Then(unpack_u32(time.ret[2]), LAMBDA bits :
    Then(unpack_u32(bits.ret[2]), LAMBDA nonce :
        Outcome("", None,
                <<BlockHeader_init(version.ret[1], prev_block_hash, merkle_root_hash,
                                   time.ret[1], bits.ret[1], nonce.ret[1]),
                  nonce.ret[2]>>)))))))

BlockHeader_bytes(bh) ==
    pack_u32(bh.version) \o bh.prev_block_hash \o bh.merkle_root_hash
        \o pack_u32(bh.time) \o pack_u32(bh.bits) \o pack_u32(bh.nonce)

BlockHeader_hash(bh) == dhash(BlockHeader_bytes(bh))

(***************************************************************************)
(* Transaction and CoinbaseInput (two1.bitcoin.txn) and the midstate of    *)
(* two1.bitcoin.sha256, as block.py uses them: num_inputs, inputs[0]'s     *)
(* class, hash, bytes(t), Transaction.from_bytes(b), mid_state.            *)
(***************************************************************************)
CoinbaseInput == [cls |-> "CoinbaseInput"]

TransactionInput == [cls |-> "TransactionInput"]

Transaction(inputs, payload) ==
    [cls |-> "Transaction", num_inputs |-> Len(inputs), inputs |-> inputs,
     payload |-> payload]

InputByte(i) == IF i.cls = "CoinbaseInput" THEN 0 ELSE 1

InputOfByte(b) == IF b = 0 THEN CoinbaseInput ELSE TransactionInput

\* bytes(t): the input count, one byte per input, one byte of payload.
Transaction_bytes(t) ==
    pack_compact_int(PyInt(t.num_inputs))
        \o [i \in 1..t.num_inputs |-> InputByte(t.inputs[i])] \o <<t.payload>>

Transaction_from_bytes(b) ==
    Then(unpack_compact_int(b), LAMBDA n :
        LET count == Small(n.ret[1])
            rest == n.ret[2]
        IN IF Len(rest) < count + 1
           THEN Outcome("struct.error", None, None)
           ELSE Outcome("", None,
                        <<Transaction([i \in 1..count |-> InputOfByte(rest[i])],
                                      rest[count + 1]),
                          From(rest, count + 1)>>))

Transaction_hash(t) == dhash(Transaction_bytes(t))

\* sha256(b).mid_state packed '>8I': 32 bytes fixed by the 64 bytes given.
sha256_midstate(b) == Digest(Reverse(b), 17)

(***************************************************************************)
(* MerkleNode = namedtuple('MerkleNode', ['hash', 'left_child',            *)
(* 'right_child']).                                                        *)
(***************************************************************************)
MerkleNode(hash, left_child, right_child) ==
    [cls |-> "MerkleNode", hash |-> hash, left_child |-> left_child,
     right_child |-> right_child]

\* node.name = v on a namedtuple: its fields are read-only and it takes no
\* other attribute, so every assignment raises AttributeError.
MerkleNode_setattr(node, name, v) == Outcome("AttributeError", node, None)

(***************************************************************************)
(* What a class defines: reading self.name succeeds when name is an        *)
(* instance attribute or is defined by the class.                          *)
(***************************************************************************)
BlockBaseMembers ==
    {"coinbase_transaction", "compute_hash", "check_valid_nonce"}

ClassMembers(cls) ==
    IF cls = "Block"
    THEN BlockBaseMembers \cup
         {"from_bytes", "from_blockheader", "invalidate", "invalidate_coinbase",
          "compute_merkle_tree", "hash"}
    ELSE IF cls = "CompactBlock"
    THEN BlockBaseMembers \cup {"_complete_merkle_edge", "_compute_midstate"}
    ELSE {}

CanRead(self, name) == HasAttr(self, name) \/ name \in ClassMembers(self.cls)

\* self.block_header.name = v
SetHeader(self, name, v) ==
    SetAttr(self, "block_header", SetAttr(self.block_header, name, v))

(***************************************************************************)
(* BlockBase                                                               *)
(***************************************************************************)
\* The header is built first; decode_compact_target may then raise, and
\* the constructor's exception leaves the caller with no object.
BlockBase_init(cls, height, version, prev_block_hash, time, bits) ==
    Then(decode_compact_target(bits), LAMBDA target :
        Outcome("",
                [cls |-> cls,
                 height |-> height,
                 block_header |-> BlockHeader_init(version, prev_block_hash,
                                                   Zeros(32), time, bits, 0),
                 target |-> target.ret],
                None))

compute_hash(self, nonce) ==
    Let(SetHeader(self, "nonce", nonce), LAMBDA self1 :
        Outcome("", self1, BlockHeader_hash(self1.block_header)))

\* check_valid_nonce reading the hash without reversing it.
check_valid_nonce_NoReverse(self, nonce) ==
    Then(compute_hash(self, nonce), LAMBDA c :
        IF ~CanRead(c.self, "target") THEN Outcome("AttributeError", c.self, None)
        ELSE Outcome("", c.self, IntLess(int_from_bytes_big(c.ret), c.self.target)))

check_valid_nonce(self, nonce) ==
    Then(compute_hash(self, nonce), LAMBDA c :
        IF ~CanRead(c.self, "target") THEN Outcome("AttributeError", c.self, None)
        ELSE Outcome("", c.self,
                     IntLess(int_from_bytes_big(Reverse(c.ret)), c.self.target)))

(***************************************************************************)
(* Block                                                                   *)
(***************************************************************************)
\* A list comprehension: the list with its elements computed.
List(f) == f \o <<>>

\* MerkleLevels pairing an odd level's last node with nothing: the node
\* moves up as it is.
RECURSIVE MerkleLevels_NoDuplicate(_)
MerkleLevels_NoDuplicate(level_nodes) ==
    IF Len(level_nodes) = 1 THEN level_nodes[1]
    ELSE Let(List([i \in 1..((Len(level_nodes) + 1) \div 2) |->
                    IF 2 * i <= Len(level_nodes)
                    THEN MerkleNode(dhash(level_nodes[2 * i - 1].hash
                                           \o level_nodes[2 * i].hash),
                                    level_nodes[2 * i - 1], level_nodes[2 * i])
                    ELSE level_nodes[2 * i - 1]]),
             MerkleLevels_NoDuplicate)

\* The while loop of compute_merkle_tree, from one level's nodes to the
\* root.  With no node at all the loop never ends: the callers below are
\* given at least one transaction.
RECURSIVE MerkleLevels(_)
MerkleLevels(level_nodes) ==
    IF Len(level_nodes) = 1 THEN level_nodes[1]
    ELSE Let(IF Len(level_nodes) % 2 # 0
             THEN Append(level_nodes, level_nodes[Len(level_nodes)])
             ELSE level_nodes,
             LAMBDA even :
        Let(List([i \in 1..(Len(even) \div 2) |->
                    MerkleNode(dhash(even[2 * i - 1].hash \o even[2 * i].hash),
                               even[2 * i - 1], even[2 * i])]),
            MerkleLevels))

compute_merkle_tree(self) ==
    IF ~CanRead(self, "txns") THEN Outcome("AttributeError", self, None)
    ELSE Let(List([i \in 1..Len(self.txns) |->
                     MerkleNode(Transaction_hash(self.txns[i]), None, None)]),
             LAMBDA level_nodes :
                Outcome("", SetAttr(self, "merkle_tree", MerkleLevels(level_nodes)), None))

invalidate(self) ==
    Then(compute_merkle_tree(self), LAMBDA c :
        Outcome("", SetHeader(c.self, "merkle_root_hash", c.self.merkle_tree.hash), None))

\* merkle_node is None for the call without argument.  Each assignment is
\* to merkle_node.merkle_hash, and the leaf's new hash is read from
\* self.coinbase_tranaction.
RECURSIVE invalidate_coinbase(_, _)
invalidate_coinbase(self, merkle_node) ==
    LET node == IF IsNone(merkle_node) THEN self.merkle_tree ELSE merkle_node
    IN IF IsNone(node.left_child) /\ IsNone(node.right_child)
       THEN IF ~CanRead(self, "coinbase_tranaction")
            THEN Outcome("AttributeError", self, None)
            ELSE Outcome(MerkleNode_setattr(node, "merkle_hash",
                                            Transaction_hash(self.txns[1])).raised,
                         self, None)
       ELSE Then(invalidate_coinbase(self, node.left_child), LAMBDA r :
            Let(MerkleNode_setattr(node, "merkle_hash",
                                   dhash(node.left_child.hash \o node.right_child.hash)),
                LAMBDA w :
                IF w.raised # "" THEN Outcome(w.raised, r.self, None)
                ELSE IF node = r.self.merkle_tree
                THEN Outcome("", SetHeader(r.self, "merkle_hash", r.self.merkle_tree.hash),
                             None)
                ELSE Outcome("", r.self, None)))

\* The setter storing the transaction before it checks it.
Block_set_coinbase_transaction_StoreFirst(self, cb_txn) ==
    Let(SetAttr(self, "txns", [self.txns EXCEPT ![1] = cb_txn]), LAMBDA self1 :
        IF cb_txn.num_inputs # 1 THEN Outcome("ValueError", self1, None)
        ELSE IF cb_txn.inputs[1].cls # "CoinbaseInput"
        THEN Outcome("TypeError", self1, None)
        ELSE invalidate_coinbase(self1, None))

\* The setter of Block.coinbase_transaction.
Block_set_coinbase_transaction(self, cb_txn) ==
    IF cb_txn.num_inputs # 1 THEN Outcome("ValueError", self, None)
    ELSE IF cb_txn.inputs[1].cls # "CoinbaseInput" THEN Outcome("TypeError", self, None)
    ELSE Let(SetAttr(self, "txns", [self.txns EXCEPT ![1] = cb_txn]), LAMBDA self1 :
            invalidate_coinbase(self1, None))

Block_init(height, version, prev_block_hash, time, bits, nonce, txns) ==
    Then(BlockBase_init("Block", height, version, prev_block_hash, time, bits), LAMBDA b :
        invalidate(SetAttr(SetAttr(SetHeader(b.self, "nonce", nonce), "txns", txns),
                           "merkle_tree", None)))

Block_from_blockheader(bh, txns) ==
    Then(invalidate([cls |-> "Block", block_header |-> bh, transactions |-> txns,
                     merkle_tree |-> None]),
         LAMBDA i : Outcome("", i.self, i.self))

\* The loop of Block.from_bytes over range(num_txns).
RECURSIVE ParseTxns(_, _, _)
ParseTxns(n, b, txns) ==
    IF n = 0 THEN Outcome("", None, <<txns, b>>)
    ELSE Then(Transaction_from_bytes(b), LAMBDA t :
            ParseTxns(n - 1, t.ret[2], Append(txns, t.ret[1])))

Block_from_bytes(b) ==
    Then(BlockHeader_from_bytes(b), LAMBDA bh :
    Then(unpack_compact_int(bh.ret[2]), LAMBDA num_txns :
    Then(ParseTxns(Small(num_txns.ret[1]), num_txns.ret[2], <<>>), LAMBDA p :
    Then(Block_from_blockheader(bh.ret[1], p.ret[1]), LAMBDA block :
        Outcome("", None, <<block.ret, p.ret[2]>>)))))

Block_bytes(self) ==
    BlockHeader_bytes(self.block_header)
        \o pack_compact_int(PyInt(Len(self.txns)))
        \o Concat(List([i \in 1..Len(self.txns) |-> Transaction_bytes(self.txns[i])]))

(***************************************************************************)
(* CompactBlock                                                            *)
(***************************************************************************)
\* The loop of _complete_merkle_edge.
RECURSIVE FoldEdge(_, _)
FoldEdge(cur_hash, merkle_edge) ==
    IF merkle_edge = <<>> THEN cur_hash
    ELSE Let(dhash(cur_hash \o Head(merkle_edge)), LAMBDA h :
            FoldEdge(h, Tail(merkle_edge)))

complete_merkle_edge(self) ==
    IF IsNone(self["_cb_txn"]) THEN self
    ELSE SetHeader(self, "merkle_root_hash",
                   FoldEdge(Transaction_hash(self["_cb_txn"]), self.merkle_edge))

compute_midstate(self) ==
    SetAttr(self, "_midstate",
            sha256_midstate(Slice(BlockHeader_bytes(self.block_header), 0, 64)))

\* The setter computing the midstate before the merkle root.
CompactBlock_set_coinbase_transaction_MidstateFirst(self, cb_txn) ==
    Let(SetAttr(self, "_cb_txn", cb_txn), LAMBDA self1 :
    Let(compute_midstate(self1), LAMBDA self2 :
        Outcome("", complete_merkle_edge(self2), None)))

\* The setter of CompactBlock.coinbase_transaction.
CompactBlock_set_coinbase_transaction(self, cb_txn) ==
    Let(SetAttr(self, "_cb_txn", cb_txn), LAMBDA self1 :
    Let(complete_merkle_edge(self1), LAMBDA self2 :
        Outcome("", compute_midstate(self2), None)))

CompactBlock_init(height, version, prev_block_hash, time, bits, merkle_edge, cb_txn) ==
    Then(BlockBase_init("CompactBlock", height, version, prev_block_hash, time, bits),
         LAMBDA b :
        Let(SetAttr(SetAttr(b.self, "block_header",
                            BlockHeader_init(version, prev_block_hash, Zeros(32),
                                             time, bits, 0)),
                    "merkle_edge", merkle_edge),
            LAMBDA self1 :
            IF ~IsNone(cb_txn)
            THEN CompactBlock_set_coinbase_transaction(self1, cb_txn)
            ELSE Outcome("", SetAttr(self1, "_cb_txn", None), None)))

(***************************************************************************)
(* The inputs the callers pass.                                            *)
(***************************************************************************)
SeqsUpTo(S, n) == UNION {[1..k -> S] : k \in 0..n}

\* Transactions: two coinbases, a spend with one input, a spend with two,
\* and one with two inputs of which the first is a coinbase input.
cbA == Transaction(<<CoinbaseInput>>, 7)

cbB == Transaction(<<CoinbaseInput>>, 9)

spend1 == Transaction(<<TransactionInput>>, 3)

spend2 == Transaction(<<TransactionInput, TransactionInput>>, 5)

Coinbases == {cbA, cbB}

Spends == {spend1, spend2}

twoInputs == Transaction(<<CoinbaseInput, TransactionInput>>, 6)

\* What a caller may assign as the coinbase of a Block.
Offered == Coinbases \cup {spend1, twoInputs}

TxnLists ==
    {<<c>> \o rest : c \in Coinbases, rest \in SeqsUpTo(Spends, MaxTxns - 1)}

\* 32-byte hashes a caller holds.
HashA == [i \in 1..32 |-> i]

HashB == [i \in 1..32 |-> 255 - ((11 * i) % 256)]

HashSamples == {Zeros(32), HashA}

EdgeSamples == SeqsUpTo({HashA, HashB}, MaxEdge)

\* Compact targets: 0x0200ffff (an exponent below 3), 0x03000000 (a zero
\* mantissa), 0x207fffff and 0x7fffffff.
BitsSamples == {33619967, 50331648, 545259519, 2147483647}

NonceSamples == {1, 2147483647}

\* Four little-endian bytes as they come off the wire.
WireU32 == {<<0, 0, 0, 0>>, <<4, 3, 2, 1>>, <<255, 255, 255, 127>>}

WireBits == {<<255, 255, 0, 29>>, <<0, 0, 0, 3>>}

HeaderWire ==
    {v \o p \o m \o t \o b \o n :
        v \in {<<1, 0, 0, 0>>, <<4, 3, 2, 1>>}, p \in {HashA}, m \in {HashA, HashB},
        t \in {<<41, 171, 95, 73>>}, b \in WireBits, n \in WireU32}

Suffixes == SeqsUpTo({0, 171}, MaxSuffix)

\* Serialized transactions as they come off the wire, and blocks of them.
TxWire == {<<1, 0, 7>>, <<1, 1, 3>>, <<2, 1, 1, 5>>}

BlockWire ==
    {h \o <<Len(ts)>> \o Concat(ts) :
        h \in {hw \in HeaderWire : SubSeq(hw, 1, 4) = <<1, 0, 0, 0>> /\ SubSeq(hw, 77, 80) = <<4, 3, 2, 1>>},
        ts \in {<<<<1, 0, 7>>>>, <<<<1, 0, 7>>, <<1, 1, 3>>>>,
                <<<<1, 0, 7>>, <<2, 1, 1, 5>>, <<1, 1, 3>>>>}}

Op(op, raised, arg, ret) == [op |-> op, raised |-> raised, arg |-> arg, ret |-> ret]

IsBlock == obj.cls = "Block"

IsCompactBlock == obj.cls = "CompactBlock"

(***************************************************************************)
(* The state: obj is the object the caller holds (None before any is       *)
(* built, and after a constructor raised), last the call made last: its    *)
(* name, the exception that escaped it, its argument and what it returned. *)
(***************************************************************************)
Init ==
    /\ obj = None
    /\ last = Op("", "", None, None)

Bound(o) == IF o.raised = "" THEN o.self ELSE None

\* No constructor was called yet.
Fresh == IsNone(obj) /\ last.op = ""

NewBlock ==
    /\ Fresh
    /\ \E bits \in BitsSamples, txns \in TxnLists :
         \E o \in {Block_init(1, 2, HashA, 1231006505, bits, 0, txns)} :
            /\ obj' = Bound(o)
            /\ last' = Op("Block", o.raised, [bits |-> bits, txns |-> txns], None)

NewBlockFromBlockheader ==
    /\ Fresh
    /\ \E bits \in BitsSamples, txns \in TxnLists :
         \E o \in {Block_from_blockheader(
                       BlockHeader_init(2, HashA, Zeros(32), 1231006505, bits, 0), txns)} :
            /\ obj' = Bound(o)
            /\ last' = Op("Block.from_blockheader", o.raised,
                          [bits |-> bits, txns |-> txns], None)

BlockFromBytes ==
    /\ Fresh
    /\ \E b \in BlockWire, r \in Suffixes :
         \E o \in {Block_from_bytes(b \o r)} :
            /\ obj' = IF o.raised = "" THEN o.ret[1] ELSE None
            /\ last' = Op("Block.from_bytes", o.raised, [b |-> b, r |-> r],
                          IF o.raised = "" THEN o.ret[2] ELSE <<>>)

NewCompactBlock ==
    /\ Fresh
    /\ \E bits \in BitsSamples, merkle_edge \in EdgeSamples,
          cb_txn \in Coinbases \cup {None} :
         \E o \in {CompactBlock_init(1, 2, HashA, 1231006505, bits, merkle_edge, cb_txn)} :
            /\ obj' = Bound(o)
            /\ last' = Op("CompactBlock", o.raised, cb_txn, None)

NewBlockHeader ==
    /\ Fresh
    /\ \E version \in {1, 16909060}, prev_block_hash \in HashSamples,
          merkle_root_hash \in {HashB}, bits \in BitsSamples,
          nonce \in NonceSamples :
         /\ obj' = BlockHeader_init(version, prev_block_hash, merkle_root_hash,
                                    1231006505, bits, nonce)
         /\ last' = Op("BlockHeader", "", None, None)

\* BlockHeader.from_bytes on 80 bytes and what follows them, or on the
\* first k bytes of a header.
HeaderFromBytes ==
    /\ Fresh
    /\ \E h \in HeaderWire, r \in Suffixes, k \in {3, 79, 80} :
         \E b \in {IF k = 80 THEN h \o r ELSE Slice(h, 0, k)} :
         \E o \in {BlockHeader_from_bytes(b)} :
            /\ obj' = IF o.raised = "" THEN o.ret[1] ELSE None
            /\ last' = Op("BlockHeader.from_bytes", o.raised, [b |-> b, k |-> k],
                          IF o.raised = "" THEN o.ret[2] ELSE <<>>)

BlockSetCoinbase ==
    /\ IsBlock
    /\ \E cb_txn \in Offered :
         \E o \in {Block_set_coinbase_transaction(obj, cb_txn)} :
            /\ obj' = o.self
            /\ last' = Op("Block.coinbase_transaction", o.raised, cb_txn, None)

Invalidate ==
    /\ IsBlock
    /\ \E o \in {invalidate(obj)} :
          /\ obj' = o.self
          /\ last' = Op("invalidate", o.raised, None, None)

CompactBlockSetCoinbase ==
    /\ IsCompactBlock
    /\ \E cb_txn \in Coinbases \cup {None} :
         \E o \in {CompactBlock_set_coinbase_transaction(obj, cb_txn)} :
            /\ obj' = o.self
            /\ last' = Op("CompactBlock.coinbase_transaction", o.raised, cb_txn, None)

ComputeHash ==
    /\ IsBlock \/ IsCompactBlock
    /\ \E nonce \in NonceSamples :
         \E o \in {compute_hash(obj, nonce)} :
            /\ obj' = o.self
            /\ last' = Op("compute_hash", o.raised, nonce, o.ret)

CheckValidNonce ==
    /\ IsBlock \/ IsCompactBlock
    /\ \E nonce \in NonceSamples :
         \E o \in {check_valid_nonce(obj, nonce)} :
            /\ obj' = o.self
            /\ last' = Op("check_valid_nonce", o.raised, nonce, o.ret)

\* The caller writes the header's bits: block.block_header.bits = bits.
SetBits ==
    /\ IsBlock \/ IsCompactBlock
    /\ \E bits \in {50331648, 2147483647} :
         /\ obj' = SetHeader(obj, "bits", bits)
         /\ last' = Op("block_header.bits", "", bits, None)

Next ==
    \/ NewBlock
    \/ NewBlockFromBlockheader
    \/ BlockFromBytes
    \/ NewCompactBlock
    \/ NewBlockHeader
    \/ HeaderFromBytes
    \/ BlockSetCoinbase
    \/ Invalidate
    \/ CompactBlockSetCoinbase
    \/ ComputeHash
    \/ CheckValidNonce

\* The calls of the classes' own methods.
Spec == Init /\ [][Next]_vars

\* The same, with the caller's writes of the header's bits.
SpecBits == Init /\ [][Next \/ SetBits]_vars

(***************************************************************************)
(* The functions of utils.py called on their own: last is the call, obj    *)
(* stays None.                                                             *)
(***************************************************************************)
\* 0x1d00ffff, 0x1b0404cb, 0x03800000, 0x03000001, 0x03000000, 0x04800000,
\* 0x207fffff, 0x0400ffff, 0x05123456, 0x22008000, 0x03ffffff, and
\* 0x0200ffff with its exponent below 3.
TargetBits ==
    {486604799, 453248203, 58720256, 50331649, 50331648, 75497472, 545259519,
     67174399, 85079126, 570458112, 67108863, 33619967}

Heights == {era * 210000 + k : era \in 0..MaxEra, k \in {0, 1, 209999}}

\* 0, 1, 0xfc, 0xfd, 300, 0xffff, 0x10000, 2^31 - 1, 0xffffffff,
\* 0x100000000, 2^56 and 2^64 - 1.
CompactInts ==
    {PyInt(0), PyInt(1), PyInt(252), PyInt(253), PyInt(300), PyInt(65535),
     PyInt(65536), PyInt(2147483647), <<255, 255, 255, 255>>, <<1, 0, 0, 0, 0>>,
     <<1, 0, 0, 0, 0, 0, 0, 0>>, <<255, 255, 255, 255, 255, 255, 255, 255>>}

CompactSuffixes == SeqsUpTo({0, 255}, MaxSuffix + 1)

\* Bytes off the wire: nothing, or a first byte and up to nine more.
CompactWire ==
    {<<>>} \cup {<<m>> \o SubSeq(<<1, 2, 3, 4, 5, 6, 7, 8, 9>>, 1, k) :
                    m \in {0, 252, 253, 254, 255}, k \in 0..9}

DecodeCompactTarget ==
    /\ Fresh
    /\ \E bits \in TargetBits :
         \E o \in {decode_compact_target(bits)} :
            last' = Op("decode_compact_target", o.raised, bits, o.ret)
    /\ UNCHANGED obj

EncodeCompactTarget ==
    /\ last.op = "decode_compact_target"
    /\ last.raised = ""
    /\ \E o \in {encode_compact_target(last.ret)} :
         last' = Op("encode_compact_target", o.raised,
                    [bits |-> last.arg, target |-> last.ret], o.ret)
    /\ UNCHANGED obj

ComputeReward ==
    /\ Fresh
    /\ \E height \in Heights :
         \E o \in {compute_reward(height)} :
            last' = Op("compute_reward", o.raised, height, o.ret)
    /\ UNCHANGED obj

PackCompactInt ==
    /\ Fresh
    /\ \E i \in CompactInts :
         last' = Op("pack_compact_int", "", i, pack_compact_int(i))
    /\ UNCHANGED obj

\* unpack_compact_int of what pack_compact_int returned, with a suffix.
UnpackPacked ==
    /\ last.op = "pack_compact_int"
    /\ \E r \in CompactSuffixes :
         \E o \in {unpack_compact_int(last.ret \o r)} :
            last' = Op("unpack_compact_int", o.raised,
                       [n |-> last.arg, b |-> last.ret \o r, r |-> r], o.ret)
    /\ UNCHANGED obj

UnpackCompactInt ==
    /\ Fresh
    /\ \E b \in CompactWire :
         \E o \in {unpack_compact_int(b)} :
            last' = Op("unpack_compact_int", o.raised, [b |-> b], o.ret)
    /\ UNCHANGED obj

NextUtils ==
    \/ DecodeCompactTarget
    \/ EncodeCompactTarget
    \/ ComputeReward
    \/ PackCompactInt
    \/ UnpackPacked
    \/ UnpackCompactInt

SpecUtils == Init /\ [][NextUtils]_vars

(***************************************************************************)
(* What the claims are stated with.                                        *)
(***************************************************************************)
TxHashes(txns) == [i \in 1..Len(txns) |-> Transaction_hash(txns[i])]

\* The number of nodes of level L over n leaves, an odd level's last node
\* counting twice.
RECURSIVE LevelCount(_, _)
LevelCount(n, L) == IF L = 0 THEN n ELSE (LevelCount(n, L - 1) + 1) \div 2

\* The hash of node i (from 0) of level L: a leaf's hash on level 0, else
\* the double hash of its two children, the left one again where there is
\* no right one.
RECURSIVE MerkleAt(_, _, _)
MerkleAt(hs, L, i) ==
    IF L = 0 THEN hs[i + 1]
    ELSE LET right == IF 2 * i + 1 < LevelCount(Len(hs), L - 1) THEN 2 * i + 1 ELSE 2 * i
         IN dhash(MerkleAt(hs, L - 1, 2 * i) \o MerkleAt(hs, L - 1, right))

\* The merkle root of the leaves hs: the one node of the first level that
\* has one node.
MerkleRoot(hs) ==
    MerkleAt(hs, CHOOSE L \in 0..Len(hs) :
                    /\ LevelCount(Len(hs), L) = 1
                    /\ \A K \in 0..(L - 1) : LevelCount(Len(hs), K) # 1,
             0)

\* The fold of double_hash(running || edge[i]) over the first k hashes of
\* the edge.
RECURSIVE EdgeRoot(_, _, _)
EdgeRoot(h, edge, k) ==
    IF k = 0 THEN h ELSE dhash(EdgeRoot(h, edge, k - 1) \o edge[k])

\* The first 64 of a header's 80 bytes: the version, the previous block's
\* hash and 28 bytes of the merkle root.
First64(bh) ==
    <<bh.version % 256, (bh.version \div 256) % 256, (bh.version \div 65536) % 256,
      bh.version \div 16777216>>
        \o bh.prev_block_hash \o SubSeq(bh.merkle_root_hash, 1, 28)

ValidCoinbase(t) == t.num_inputs = 1 /\ t.inputs[1].cls = "CoinbaseInput"

\* The hash h, least significant byte first, is a number below
\* mantissa * 256^(exponent - 3): its bytes above the three that face the
\* mantissa are zero, and those three are a number below the mantissa.
BelowTarget(h, bits) ==
    LET e == (bits \div 16777216) - 3
        mantissa == bits % 16777216
        byte(k) == IF k <= Len(h) THEN h[k] ELSE 0
    IN /\ \A k \in (e + 4)..Len(h) : h[k] = 0
       /\ byte(e + 1) + 256 * byte(e + 2) + 65536 * byte(e + 3) < mantissa

\* Bytes 4k+1..4k+4 of b are the 32-bit v, least significant byte first.
IsLE32(b, k, v) ==
    /\ b[4 * k + 1] = v % 256
    /\ b[4 * k + 2] = (v \div 256) % 256
    /\ b[4 * k + 3] = (v \div 65536) % 256
    /\ b[4 * k + 4] = v \div 16777216

(***************************************************************************)
(* The claims.                                                             *)
(***************************************************************************)

\* C1: in every state of a Block, after its construction and any coinbase
\* assignments and invalidate() calls, the header's merkle_root_hash is
\* the merkle root of the block's current transaction list.
C1_HeaderRootIsCurrentRoot ==
    IsBlock => obj.block_header.merkle_root_hash = MerkleRoot(TxHashes(obj.txns))

\* C2: after a valid coinbase is assigned to a Block of at least two other
\* transactions, the assignment has succeeded, and the merkle tree's root
\* and the header's merkle root are those of a full rebuild of the list
\* with the new coinbase in position 0.
C2_IncrementalEqualsRebuild ==
    (/\ IsBlock
     /\ last.op = "Block.coinbase_transaction"
     /\ ValidCoinbase(last.arg)
     /\ Len(obj.txns) >= 3)
    => /\ last.raised = ""
       /\ obj.txns[1] = last.arg
       /\ obj.merkle_tree.hash = compute_merkle_tree(obj).self.merkle_tree.hash
       /\ obj.block_header.merkle_root_hash
              = invalidate(obj).self.block_header.merkle_root_hash

\* C3: a coinbase assignment to a Block of a transaction that has not
\* exactly one input, or whose input is no coinbase input, raises (the
\* ValueError or TypeError with which the code signals an invalid
\* coinbase) and leaves the block as it was: transactions, merkle tree
\* and header.
C3_InvalidCoinbaseLeavesBlock ==
    [][(/\ IsBlock
        /\ last'.op = "Block.coinbase_transaction"
        /\ ~ValidCoinbase(last'.arg))
       => /\ last'.raised \in {"ValueError", "TypeError"}
          /\ obj'.txns = obj.txns
          /\ obj'.merkle_tree = obj.merkle_tree
          /\ obj'.block_header = obj.block_header
          /\ obj' = obj]_vars

C3_Witness ==
    /\ IsBlock
    /\ last.op = "Block.coinbase_transaction"
    /\ last.arg = spend1
    /\ last.raised = "TypeError"
    /\ Len(obj.txns) >= 2

\* C4: in every state of a CompactBlock with a coinbase, the header's
\* merkle root is the fold of double_hash(running || edge[i]) over the
\* merkle edge from the coinbase's hash, and whenever there is a midstate
\* it is the compression state of the first 64 bytes of the header with
\* the root the header has.
C4_RootAndMidstate ==
    IsCompactBlock
    => /\ ~IsNone(obj["_cb_txn"])
          => /\ obj.block_header.merkle_root_hash
                   = EdgeRoot(Transaction_hash(obj["_cb_txn"]), obj.merkle_edge,
                              Len(obj.merkle_edge))
             /\ HasAttr(obj, "_midstate")
       /\ HasAttr(obj, "_midstate")
          => obj["_midstate"] = sha256_midstate(First64(obj.block_header))

C4_Witness ==
    /\ IsCompactBlock
    /\ last.op = "CompactBlock.coinbase_transaction"
    /\ obj["_cb_txn"] = cbB
    /\ Len(obj.merkle_edge) >= 2
    /\ obj.merkle_edge[1] # obj.merkle_edge[2]
    /\ obj.block_header.nonce # 0

\* C5: a proof-of-work check (compute_hash, check_valid_nonce) on a
\* CompactBlock that has no coinbase transaction raises.
C5_PowWithoutCoinbaseRaises ==
    (/\ IsCompactBlock
     /\ last.op \in {"compute_hash", "check_valid_nonce"}
     /\ IsNone(obj["_cb_txn"]))
    => last.raised # ""

\* C6: check_valid_nonce(nonce) returns whether the double hash of the
\* header serialized with that nonce, read as a number from its last byte
\* down to its first, is below the target of the header's bits; with a
\* zero mantissa it returns false, with the bits 0x7fffffff true.
C6_CheckValidNonce ==
    (/\ IsBlock \/ IsCompactBlock
     /\ last.op = "check_valid_nonce")
    => LET bh == obj.block_header
           h == dhash(pack_u32(bh.version) \o bh.prev_block_hash \o bh.merkle_root_hash
                        \o pack_u32(bh.time) \o pack_u32(bh.bits) \o pack_u32(last.arg))
       IN /\ last.raised = ""
          /\ last.ret = BelowTarget(h, bh.bits)
          /\ bh.bits % 16777216 = 0 => last.ret = FALSE
          /\ bh.bits = 2147483647 => last.ret = TRUE

C6_Witness ==
    /\ IsBlock
    /\ last.op = "check_valid_nonce"
    /\ obj.block_header.bits = 545259519
    /\ last.ret = TRUE
    /\ Len(obj.txns) >= 2

\* C7: in every state of a Block or CompactBlock, also after the header's
\* bits were changed, the block has a target, and it is
\* decode_compact_target(block_header.bits).
C7_TargetIsDecodedBits ==
    (IsBlock \/ IsCompactBlock)
    => /\ HasAttr(obj, "target")
       /\ decode_compact_target(obj.block_header.bits).raised = ""
       /\ obj.target = decode_compact_target(obj.block_header.bits).ret

\* C8: BlockHeader.from_bytes of 80 bytes and a suffix returns a header
\* that serializes to the 80 bytes, and the suffix; every header
\* serializes to 80 bytes, its six fields in the order version, previous
\* hash, merkle root, time, bits, nonce, and from_bytes of them returns
\* the same six values and no remainder.
C8_HeaderRoundTrip ==
    /\ (last.op = "BlockHeader.from_bytes" /\ last.arg.k = 80)
       => /\ last.raised = ""
          /\ obj.cls = "BlockHeader"
          /\ BlockHeader_bytes(obj) = SubSeq(last.arg.b, 1, 80)
          /\ last.ret = SubSeq(last.arg.b, 81, Len(last.arg.b))
    /\ obj.cls = "BlockHeader"
       => LET b == BlockHeader_bytes(obj)
              p == BlockHeader_from_bytes(b)
          IN /\ Len(b) = 80
             /\ IsLE32(b, 0, obj.version)
             /\ SubSeq(b, 5, 36) = obj.prev_block_hash
             /\ SubSeq(b, 37, 68) = obj.merkle_root_hash
             /\ IsLE32(b, 17, obj.time)
             /\ IsLE32(b, 18, obj.bits)
             /\ IsLE32(b, 19, obj.nonce)
             /\ p.raised = ""
             /\ p.ret[1] = obj
             /\ p.ret[2] = <<>>

C8_Witness ==
    /\ last.op = "BlockHeader.from_bytes"
    /\ last.arg.k = 80
    /\ last.ret # <<>>
    /\ obj.cls = "BlockHeader"
    /\ obj.version = 16909060
    /\ obj.nonce = 2147483647

\* C9: Block.from_bytes of a serialized block and a suffix returns a block
\* and the suffix, and the block serializes to the bytes it was parsed
\* from.
C9_BlockRoundTrip ==
    last.op = "Block.from_bytes"
    => /\ last.raised = ""
       /\ IsBlock
       /\ last.ret = last.arg.r
       /\ Block_bytes(obj) = last.arg.b

\* C10: the merkle tree built from n >= 1 transaction hashes has the root
\* the levels define: the one leaf for n = 1, never hashed again; else an
\* odd level's last node is taken twice and consecutive pairs are
\* combined by dhash(left || right); for n = 3 the root is
\* dhash(dhash(h0 || h1) || dhash(h2 || h2)).
C10_MerkleRoot ==
    (IsBlock /\ last.op \in {"Block", "invalidate"})
    => LET hs == TxHashes(obj.txns)
       IN /\ obj.merkle_tree.hash = MerkleRoot(hs)
          /\ Len(hs) = 1 => obj.merkle_tree.hash = hs[1]
          /\ Len(hs) = 2 => obj.merkle_tree.hash = dhash(hs[1] \o hs[2])
          /\ Len(hs) = 3
             => obj.merkle_tree.hash
                  = dhash(dhash(hs[1] \o hs[2]) \o dhash(hs[3] \o hs[3]))

C10_Witness ==
    /\ IsBlock
    /\ last.op = "Block"
    /\ Len(obj.txns) = 3
    /\ obj.txns[2] # obj.txns[3]
    /\ obj.merkle_tree.hash
         = dhash(dhash(Transaction_hash(obj.txns[1]) \o Transaction_hash(obj.txns[2]))
                   \o dhash(Transaction_hash(obj.txns[3]) \o Transaction_hash(obj.txns[3])))

\* 5,000,000,000 halved era times, as the hi and lo of hi * 10^8 + lo;
\* the halving is exact up to era 9.
RECURSIVE Halved(_)
Halved(era) ==
    IF era = 0 THEN [hi |-> 50, lo |-> 0]
    ELSE LET h == Halved(era - 1)
         IN [hi |-> h.hi \div 2, lo |-> ((h.hi % 2) * 100000000 + h.lo) \div 2]

\* C11: for compact bits with exponent >= 3, also with the mantissa's top
\* bit set, encode_compact_target of the decoded target returns a compact
\* integer, and decode_compact_target of it is the decoded target again.
C11_TargetRoundTrip ==
    last.op = "encode_compact_target"
    => /\ last.raised = ""
       /\ Len(last.ret) <= 4
       /\ decode_compact_target(Small(last.ret)).raised = ""
       /\ decode_compact_target(Small(last.ret)).ret = last.arg.target

\* C12: compute_reward(h) is 5,000,000,000 halved once for each era of
\* 210,000 blocks below h: 5,000,000,000 at heights 0 and 209,999,
\* 2,500,000,000 at height 210,000.
C12_RewardHalves ==
    last.op = "compute_reward"
    => LET era == last.arg \div 210000
       IN /\ last.raised = ""
          /\ last.ret.hi = Halved(era).hi
          /\ last.ret.lo = Halved(era).lo
          /\ last.ret.num = 0
          /\ last.arg \in {0, 209999} => (last.ret.hi = 50 /\ last.ret.lo = 0)
          /\ last.arg = 210000 => (last.ret.hi = 25 /\ last.ret.lo = 0)

\* C13: unpack_compact_int of pack_compact_int(n) followed by a suffix r
\* returns n and r, for n below 2^64 and at the width boundaries; the
\* encoding is one byte below 0xfd and else a marker and 2, 4 or 8 bytes
\* (0xfd is fd fd 00, 300 is fd 2c 01); and unpack_compact_int of any
\* bytes returns a pair of a number and the rest or raises, never None.
C13_CompactIntRoundTrip ==
    /\ last.op = "pack_compact_int"
       => /\ Len(last.ret) \in {1, 3, 5, 9}
          /\ Len(last.ret) = 1 <=> IntLess(last.arg, <<253>>)
          /\ Len(last.ret) > 1 => last.ret[1] = 252 + (Len(last.ret) + 3) \div 4
          /\ last.arg = <<253>> => last.ret = <<253, 253, 0>>
          /\ last.arg = <<1, 44>> => last.ret = <<253, 44, 1>>
    /\ last.op = "unpack_compact_int"
       => /\ last.raised \in {"", "struct.error", "IndexError"}
          /\ last.raised = ""
             => /\ last.ret # None
                /\ Len(last.ret) = 2
                /\ \E k \in {1, 3, 5, 9} :
                      last.ret[2] = SubSeq(last.arg.b, k + 1, Len(last.arg.b))
          /\ "n" \in DOMAIN last.arg
             => /\ last.raised = ""
                /\ last.ret = <<last.arg.n, last.arg.r>>

C13_Witness ==
    /\ last.op = "unpack_compact_int"
    /\ "n" \in DOMAIN last.arg
    /\ last.arg.n = <<1, 0, 0, 0, 0>>
    /\ Len(last.arg.r) = 2
    /\ last.raised = ""
    /\ last.ret[1] = <<1, 0, 0, 0, 0>>

====
